---- MODULE Spec2Model ----
(***************************************************************************)
(* Model of src/common/GPIOs.hpp: the GPIO abstraction of the MSP430G2553  *)
(* (IOPort, IOState, GPIORegisters, IoHandleBase, OutputHandle,            *)
(* InputHandle, GPIOs).                                                    *)
(*                                                                         *)
(* An 8-bit register value is represented by the set of the indices of its *)
(* bits that are 1 (Bits converts a number to that set), so that           *)
(* |, & ~ and ^ are set union, difference and symmetric difference.        *)
(* A register is named by the pair <<port, kind>>; the definitions P1DIR,  *)
(* P1SEL, ... carry the names the source uses.                             *)
(***************************************************************************)
EXTENDS Integers, FiniteSets, Sequences, TLC

VARIABLES
    regs,        \* the writable port registers: register -> set of set bits
    ext,         \* the level applied from outside to the pins: port -> set of high pins
    handle,      \* the pin handle the firmware holds (NoHandle before construction)
    lastOp,      \* the operation that ran last
    lastArg,     \* the IOState given to the last setState / 3-argument constructor
    lastRead,    \* the IOState the last getState() returned
    toggleRun,   \* number of toggle() calls in the current run of consecutive toggles
    pre,         \* the pin as it was when enableInterrupt() or a run of toggles began
    armed        \* enableInterrupt() has returned on this handle

vars == <<regs, ext, handle, lastOp, lastArg, lastRead, toggleRun, pre, armed>>

----------------------------------------------------------------------------
(* Widths *)

\* uint8_t: registers, mPin and mBitMask are 8 bits wide
ByteWidth == 8
\* int on the MSP430 is 16 bits wide: the shift 0x01 << desiredPin is done in int
IntWidth == 16

BitIndex == 0 .. (ByteWidth - 1)
Byte == SUBSET BitIndex

\* the bits of the low byte of n
Bits(n) == {i \in BitIndex : (n \div (2 ^ i)) % 2 = 1}

----------------------------------------------------------------------------
(* enum class IOPort, enum class IOState *)

PORT_1 == 1
PORT_2 == 2
PORT_3 == 3
IOPort == {PORT_1, PORT_2, PORT_3}

LOW == 0
HIGH == 1
IOState == {LOW, HIGH}

----------------------------------------------------------------------------
(* The registers of <msp430g2553.h> the source names *)

P1DIR == <<PORT_1, "DIR">>
P2DIR == <<PORT_2, "DIR">>
P3DIR == <<PORT_3, "DIR">>
P1SEL == <<PORT_1, "SEL">>
P2SEL == <<PORT_2, "SEL">>
P3SEL == <<PORT_3, "SEL">>
P1SEL2 == <<PORT_1, "SEL2">>
P2SEL2 == <<PORT_2, "SEL2">>
P3SEL2 == <<PORT_3, "SEL2">>
P1REN == <<PORT_1, "REN">>
P2REN == <<PORT_2, "REN">>
P3REN == <<PORT_3, "REN">>
P1IN == <<PORT_1, "IN">>
P2IN == <<PORT_2, "IN">>
P3IN == <<PORT_3, "IN">>
P1OUT == <<PORT_1, "OUT">>
P2OUT == <<PORT_2, "OUT">>
P3OUT == <<PORT_3, "OUT">>
P1IE == <<PORT_1, "IE">>
P2IE == <<PORT_2, "IE">>
P1IES == <<PORT_1, "IES">>
P2IES == <<PORT_2, "IES">>
P1IFG == <<PORT_1, "IFG">>
P2IFG == <<PORT_2, "IFG">>

\* the registers software can write (PxIN is read-only)
WritableRegisters ==
    {P1DIR, P2DIR, P3DIR, P1SEL, P2SEL, P3SEL, P1SEL2, P2SEL2, P3SEL2,
     P1REN, P2REN, P3REN, P1OUT, P2OUT, P3OUT,
     P1IE, P2IE, P1IES, P2IES, P1IFG, P2IFG}

\* the ports that have interrupt registers
InterruptPorts == {PORT_1, PORT_2}

----------------------------------------------------------------------------
(* class GPIORegisters: the register locator *)

getPxDir(port) ==
    CASE port = PORT_1 -> P1DIR
      [] port = PORT_2 -> P2DIR
      [] OTHER -> P3DIR

getPxSel(port) ==
    CASE port = PORT_1 -> P1SEL
      [] port = PORT_2 -> P2SEL
      [] OTHER -> P3SEL

getPxSel2(port) ==
    CASE port = PORT_1 -> P1SEL2
      [] port = PORT_2 -> P2SEL2
      [] OTHER -> P3SEL2

getPxRen(port) ==
    CASE port = PORT_1 -> P1REN
      [] port = PORT_2 -> P2REN
      [] OTHER -> P3REN

getPxIn(port) ==
    CASE port = PORT_1 -> P1IN
      [] port = PORT_2 -> P2IN
      [] OTHER -> P3IN

getPxOut(port) ==
    CASE port = PORT_1 -> P1OUT
      [] port = PORT_2 -> P2OUT
      [] OTHER -> P3OUT

\* PORT_3 falls through to the default branch, which returns PORT_1's register
getPxIe(port) ==
    CASE port = PORT_1 -> P1IE
      [] port = PORT_2 -> P2IE
      [] OTHER -> P1IE

getPxIes(port) ==
    CASE port = PORT_1 -> P1IES
      [] port = PORT_2 -> P2IES
      [] OTHER -> P1IES

getPxIfg(port) ==
    CASE port = PORT_1 -> P1IFG
      [] port = PORT_2 -> P2IFG
      [] OTHER -> P1IFG

----------------------------------------------------------------------------
(* The port hardware (MSP430x2xx digital I/O), as far as the source relies on it *)

\* PxIN: a pin configured as output reads back its PxOUT bit, a pin configured
\* as input reads the level applied from outside
PinIn(R, X, port) ==
    (R[<<port, "OUT">>] \cap R[<<port, "DIR">>])
        \cup (X[port] \ R[<<port, "DIR">>])

\* The value software reads from a register
Load(R, r) == IF r[2] = "IN" THEN PinIn(R, ext, r[1]) ELSE R[r]

\* What the edge detector of an interrupt port adds to PxIFG when the register
\* file goes from Rold to Rnew and the outside levels from Xold to Xnew:
\* a high-to-low change of PxIN where PxIES is 1, a low-to-high change where
\* PxIES is 0; and, when glitch, the flag a write to PxIES may raise
\* (0 -> 1 with PxIN = 0, 1 -> 0 with PxIN = 1).
EdgeFlags(Rold, Xold, Rnew, Xnew, port, glitch) ==
    LET inOld == PinIn(Rold, Xold, port)
        inNew == PinIn(Rnew, Xnew, port)
        iesOld == Rold[<<port, "IES">>]
        iesNew == Rnew[<<port, "IES">>]
        edges == ((inOld \ inNew) \cap iesNew) \cup ((inNew \ inOld) \ iesNew)
        hazard == ((iesNew \ iesOld) \ inNew) \cup ((iesOld \ iesNew) \cap inNew)
    IN  edges \cup (IF glitch THEN hazard ELSE {})

Latch(Rold, Xold, Rnew, Xnew, glitch) ==
    [r \in WritableRegisters |->
        IF r[2] = "IFG"
        THEN Rnew[r] \cup EdgeFlags(Rold, Xold, Rnew, Xnew, r[1], glitch)
        ELSE Rnew[r]]

\* A store of value v to register r, and the hardware's reaction to it
Store(R, r, v, glitch) ==
    IF r \in WritableRegisters
    THEN Latch(R, ext, [R EXCEPT ![r] = v], ext, glitch)
    ELSE R

----------------------------------------------------------------------------
(* helpers.hpp: the read-modify-write helpers the handles call *)

setRegisterBits(R, r, mask, glitch) == Store(R, r, Load(R, r) \cup mask, glitch)

resetRegisterBits(R, r, mask, glitch) == Store(R, r, Load(R, r) \ mask, glitch)

toggleRegisterBits(R, r, mask, glitch) ==
    Store(R, r, (Load(R, r) \ mask) \cup (mask \ Load(R, r)), glitch)

\* (value & mask) >> shift
getRegisterBits(value, mask, shift) ==
    {i - shift : i \in {j \in value \cap mask : j >= shift}}

----------------------------------------------------------------------------
(* class IoHandleBase *)

NoHandle ==
    [kind |-> "none", port |-> PORT_1, mPin |-> 0, mBitMask |-> {},
     PxIn |-> P1IN, PxOut |-> P1OUT, PxDir |-> P1DIR, PxSel |-> P1SEL,
     PxSel2 |-> P1SEL2, PxRen |-> P1REN, PxIe |-> P1IE, PxIes |-> P1IES,
     PxIfg |-> P1IFG]

\* static_cast<uint8_t>(0x01) << desiredPin, stored in a uint8_t: the shift is
\* done in int; a shift by the width of int or more is undefined, and then the
\* stored mask is ub, any byte
BitMask(desiredPin, ub) ==
    IF desiredPin < IntWidth
    THEN Bits(((2 ^ desiredPin) % (2 ^ IntWidth)) % (2 ^ ByteWidth))
    ELSE ub

\* the constructor; kind and port are not members: they record the class of
\* the handle and the port it was built for
IoHandleBase(kind, port, desiredPin, ub) ==
    [kind |-> kind, port |-> port,
     mPin |-> desiredPin,
     mBitMask |-> BitMask(desiredPin, ub),
     PxIn |-> getPxIn(port),
     PxOut |-> getPxOut(port),
     PxDir |-> getPxDir(port),
     PxSel |-> getPxSel(port),
     PxSel2 |-> getPxSel2(port),
     PxRen |-> getPxRen(port),
     PxIe |-> getPxIe(port),
     PxIes |-> getPxIes(port),
     PxIfg |-> getPxIfg(port)]

getState(h, R) ==
    IF getRegisterBits(Load(R, h.PxIn), h.mBitMask, h.mPin) # {}
    THEN HIGH
    ELSE LOW

\* enableInterrupt with the flag cleared first instead of last
enableInterrupt_FlagClearedFirst(h, R, glitch) ==
    LET R1 == resetRegisterBits(R, h.PxIfg, h.mBitMask, glitch)
        R2 == setRegisterBits(R1, h.PxIe, h.mBitMask, glitch)
    IN  setRegisterBits(R2, h.PxIes, h.mBitMask, glitch)

\* enableInterrupt selecting the low-to-high edge
enableInterrupt_RisingEdge(h, R, glitch) ==
    LET R1 == setRegisterBits(R, h.PxIe, h.mBitMask, glitch)
        R2 == resetRegisterBits(R1, h.PxIes, h.mBitMask, glitch)
    IN  resetRegisterBits(R2, h.PxIfg, h.mBitMask, glitch)

enableInterrupt(h, R, glitch) ==
    LET R1 == setRegisterBits(R, h.PxIe, h.mBitMask, glitch)
        R2 == setRegisterBits(R1, h.PxIes, h.mBitMask, glitch)
    IN  resetRegisterBits(R2, h.PxIfg, h.mBitMask, glitch)

----------------------------------------------------------------------------
(* class OutputHandle *)

\* OutputHandle(port, desiredPin): the body is empty, no register is written
OutputHandle(port, desiredPin, ub) == IoHandleBase("output", port, desiredPin, ub)

OutputHandle_init(h, R) ==
    LET R1 == setRegisterBits(R, h.PxDir, h.mBitMask, FALSE)
        R2 == resetRegisterBits(R1, h.PxSel, h.mBitMask, FALSE)
    IN  resetRegisterBits(R2, h.PxSel2, h.mBitMask, FALSE)

\* setState(const bool state)
setStateBool(h, R, state) ==
    IF state
    THEN setRegisterBits(R, h.PxOut, h.mBitMask, FALSE)
    ELSE resetRegisterBits(R, h.PxOut, h.mBitMask, FALSE)

\* setState(const IOState state)
setState(h, R, state) == setStateBool(h, R, state = HIGH)

\* toggle that sets the bit instead of flipping it
toggle_SetsBit(h, R) == setRegisterBits(R, h.PxOut, h.mBitMask, FALSE)

toggle(h, R) == toggleRegisterBits(R, h.PxOut, h.mBitMask, FALSE)

----------------------------------------------------------------------------
(* class InputHandle *)

\* InputHandle(port, desiredPin): the body is empty, no register is written
InputHandle(port, desiredPin, ub) == IoHandleBase("input", port, desiredPin, ub)

InputHandle_init(h, R) ==
    LET R1 == resetRegisterBits(R, h.PxDir, h.mBitMask, FALSE)
        R2 == resetRegisterBits(R1, h.PxSel, h.mBitMask, FALSE)
        R3 == resetRegisterBits(R2, h.PxSel2, h.mBitMask, FALSE)
        R4 == resetRegisterBits(R3, h.PxOut, h.mBitMask, FALSE)
    IN  resetRegisterBits(R4, h.PxRen, h.mBitMask, FALSE)

----------------------------------------------------------------------------
(* class GPIOs: the facade *)

getOutputHandle(port, desiredPin, ub) == OutputHandle(port, desiredPin, ub)

getInputHandle(port, desiredPin, ub) == InputHandle(port, desiredPin, ub)

----------------------------------------------------------------------------
(* The firmware and its environment as a state machine *)

\* register contents the power-up state is drawn from: all bits 0, all bits 1
InitValues == {{}, BitIndex}

RegisterKinds == {r[2] : r \in WritableRegisters}

\* the groups of registers that start with the same contents
InitGroup(kind) ==
    CASE kind \in {"SEL", "SEL2"} -> "SEL"
      [] kind \in {"IE", "IES"} -> "IE"
      [] OTHER -> kind

InitGroups == {InitGroup(k) : k \in RegisterKinds}

NoSnapshot == [out |-> FALSE, state |-> LOW, ifg |-> FALSE]

\* the handle's pin as the hardware shows it now
Snapshot(h, R) ==
    [out |-> h.mPin \in R[<<h.port, "OUT">>],
     state |-> getState(h, R),
     ifg |-> h.port \in InterruptPorts /\ h.mPin \in R[<<h.port, "IFG">>]]

\* the bookkeeping every step does: which operation ran, with which argument
\* and result
Record(op, arg, read, run, base, arm) ==
    /\ lastOp' = op
    /\ lastArg' = arg
    /\ lastRead' = read
    /\ toggleRun' = run
    /\ pre' = base
    /\ armed' = arm

\* any register contents; no handle has been constructed
Init ==
    /\ \E v \in [InitGroups -> InitValues] :
          regs = [r \in WritableRegisters |-> v[InitGroup(r[2])]]
    /\ \E x \in InitValues : ext = [p \in IOPort |-> x]
    /\ handle = NoHandle
    /\ lastOp = "none"
    /\ lastArg = LOW
    /\ lastRead = LOW
    /\ toggleRun = 0
    /\ pre = NoSnapshot
    /\ armed = FALSE

\* OutputHandle p(port, desiredPin);
NewOutputHandle(port, desiredPin, ub) ==
    /\ handle = NoHandle
    /\ handle' = OutputHandle(port, desiredPin, ub)
    /\ Record("OutputHandle", LOW, LOW, 0, NoSnapshot, FALSE)
    /\ UNCHANGED <<regs, ext>>

\* OutputHandle p(port, desiredPin, initialState): delegates, then setState
NewOutputHandleWithState(port, desiredPin, initialState, ub) ==
    /\ handle = NoHandle
    /\ handle' = OutputHandle(port, desiredPin, ub)
    /\ regs' = setState(OutputHandle(port, desiredPin, ub), regs, initialState)
    /\ Record("OutputHandleWithState", initialState, LOW, 0, NoSnapshot, FALSE)
    /\ UNCHANGED ext

\* GPIOs::getOutputHandle<port, desiredPin>()
GetOutputHandle(port, desiredPin, ub) ==
    /\ handle = NoHandle
    /\ handle' = getOutputHandle(port, desiredPin, ub)
    /\ Record("getOutputHandle", LOW, LOW, 0, NoSnapshot, FALSE)
    /\ UNCHANGED <<regs, ext>>

\* InputHandle p(port, desiredPin);
NewInputHandle(port, desiredPin, ub) ==
    /\ handle = NoHandle
    /\ handle' = InputHandle(port, desiredPin, ub)
    /\ Record("InputHandle", LOW, LOW, 0, NoSnapshot, FALSE)
    /\ UNCHANGED <<regs, ext>>

\* GPIOs::getInputHandle<port, desiredPin>()
GetInputHandle(port, desiredPin, ub) ==
    /\ handle = NoHandle
    /\ handle' = getInputHandle(port, desiredPin, ub)
    /\ Record("getInputHandle", LOW, LOW, 0, NoSnapshot, FALSE)
    /\ UNCHANGED <<regs, ext>>

\* p.init() on an OutputHandle
CallOutputInit ==
    /\ handle.kind = "output"
    /\ regs' = OutputHandle_init(handle, regs)
    /\ Record("init", LOW, LOW, 0, NoSnapshot, armed)
    /\ UNCHANGED <<ext, handle>>

\* p.init() on an InputHandle
CallInputInit ==
    /\ handle.kind = "input"
    /\ regs' = InputHandle_init(handle, regs)
    /\ Record("init", LOW, LOW, 0, NoSnapshot, armed)
    /\ UNCHANGED <<ext, handle>>

\* p.setState(state)
CallSetState(state) ==
    /\ handle.kind = "output"
    /\ regs' = setState(handle, regs, state)
    /\ Record("setState", state, LOW, 0, NoSnapshot, armed)
    /\ UNCHANGED <<ext, handle>>

\* p.toggle(); a run of consecutive toggles is counted up to 2, a third
\* toggle starts a new run
CallToggle ==
    /\ handle.kind = "output"
    /\ regs' = toggle(handle, regs)
    /\ IF toggleRun = 1
       THEN Record("toggle", LOW, LOW, 2, pre, armed)
       ELSE Record("toggle", LOW, LOW, 1, Snapshot(handle, regs), armed)
    /\ UNCHANGED <<ext, handle>>

\* p.enableInterrupt(); glitch: the write to PxIES raises the flag it may raise
CallEnableInterrupt(glitch) ==
    /\ handle.kind # "none"
    /\ regs' = enableInterrupt(handle, regs, glitch)
    /\ Record("enableInterrupt", LOW, LOW, 0, Snapshot(handle, regs), TRUE)
    /\ UNCHANGED <<ext, handle>>

\* p.getState()
CallGetState ==
    /\ handle.kind # "none"
    /\ Record("getState", LOW, getState(handle, regs), 0, NoSnapshot, armed)
    /\ UNCHANGED <<regs, ext, handle>>

\* the level applied from outside to the handle's pin changes
PinChange ==
    /\ handle.kind # "none"
    /\ handle.mPin \in BitIndex
    /\ LET old == ext[handle.port]
           new == IF handle.mPin \in old
                  THEN old \ {handle.mPin}
                  ELSE old \cup {handle.mPin}
       IN  /\ ext' = [ext EXCEPT ![handle.port] = new]
           /\ regs' = Latch(regs, ext, regs, ext', FALSE)
    /\ Record("pinChange", LOW, LOW, 0, NoSnapshot, armed)
    /\ UNCHANGED handle

\* the external interrupt handler clears the pending flag of the handle's pin
InterruptHandler ==
    /\ handle.kind # "none"
    /\ handle.port \in InterruptPorts
    /\ handle.mPin \in regs[<<handle.port, "IFG">>]
    /\ regs' = [regs EXCEPT ![<<handle.port, "IFG">>] = @ \ {handle.mPin}]
    /\ Record("interruptHandler", LOW, LOW, 0, NoSnapshot, armed)
    /\ UNCHANGED <<ext, handle>>

Next ==
    \/ \E port \in IOPort, pin \in BitIndex : NewOutputHandle(port, pin, {})
    \/ \E port \in IOPort, pin \in BitIndex, s \in IOState :
          NewOutputHandleWithState(port, pin, s, {})
    \/ \E port \in IOPort, pin \in BitIndex : GetOutputHandle(port, pin, {})
    \/ \E port \in IOPort, pin \in BitIndex : NewInputHandle(port, pin, {})
    \/ \E port \in IOPort, pin \in BitIndex : GetInputHandle(port, pin, {})
    \/ CallOutputInit
    \/ CallInputInit
    \/ \E s \in IOState : CallSetState(s)
    \/ CallToggle
    \/ \E g \in BOOLEAN : CallEnableInterrupt(g)
    \/ CallGetState
    \/ PinChange
    \/ InterruptHandler

Spec == Init /\ [][Next]_vars

----------------------------------------------------------------------------
(* The pin mask over every desiredPin the constructors accept *)

\* the largest desiredPin drawn: one past the first shift that is undefined
MaxDesiredPin == 17

\* the bytes an undefined shift may leave in mBitMask
UbOutcomes(desiredPin) == IF desiredPin < IntWidth THEN {{}} ELSE Byte

InitMask ==
    /\ \E x \in InitValues : regs = [r \in WritableRegisters |-> x]
    /\ ext = [p \in IOPort |-> {}]
    /\ handle = NoHandle
    /\ lastOp = "none"
    /\ lastArg = LOW
    /\ lastRead = LOW
    /\ toggleRun = 0
    /\ pre = NoSnapshot
    /\ armed = FALSE

NextMask ==
    \/ \E port \in IOPort, pin \in 0 .. MaxDesiredPin :
          \E ub \in UbOutcomes(pin) :
          NewOutputHandle(port, pin, ub)
    \/ \E port \in IOPort, pin \in 0 .. MaxDesiredPin, s \in IOState :
          \E ub \in UbOutcomes(pin) :
          NewOutputHandleWithState(port, pin, s, ub)
    \/ \E port \in IOPort, pin \in 0 .. MaxDesiredPin :
          \E ub \in UbOutcomes(pin) :
          GetOutputHandle(port, pin, ub)
    \/ \E port \in IOPort, pin \in 0 .. MaxDesiredPin :
          \E ub \in UbOutcomes(pin) :
          NewInputHandle(port, pin, ub)
    \/ \E port \in IOPort, pin \in 0 .. MaxDesiredPin :
          \E ub \in UbOutcomes(pin) :
          GetInputHandle(port, pin, ub)

SpecMask == InitMask /\ [][NextMask]_vars

----------------------------------------------------------------------------
(* The claims *)

Constructed == handle.kind # "none"

\* the bit of the handle's pin in the register of the given kind of the
\* handle's own port
PinBit(R, kind) == handle.mPin \in R[<<handle.port, kind>>]

OutputConstructors == {"OutputHandle", "OutputHandleWithState", "getOutputHandle"}
InputConstructors == {"InputHandle", "getInputHandle"}

\* the operations of a handle that write registers
WritingOps == {"init", "setState", "toggle", "enableInterrupt"}

\* C1: on an Output handle, getState() called right after setState(s), or
\* right after the constructor that takes an initial state s, returns s.
C1_WriteThenRead ==
    (handle.kind = "output" /\ lastOp \in {"setState", "OutputHandleWithState"})
        => getState(handle, regs) = lastArg

\* C2: right after an Output handle is constructed (by a constructor or by
\* getOutputHandle), the pin's PxDIR bit is 1 and its PxSEL and PxSEL2 bits
\* are 0.
C2_OutputConstructed ==
    lastOp \in OutputConstructors
        => /\ PinBit(regs, "DIR")
           /\ ~PinBit(regs, "SEL")
           /\ ~PinBit(regs, "SEL2")

\* C3: right after an Input handle is constructed, and right after its
\* init(), the pin's PxDIR bit is 0 and its PxOUT and PxREN bits are 1.
C3_InputPullUp ==
    (handle.kind = "input" /\ lastOp \in (InputConstructors \cup {"init"}))
        => /\ ~PinBit(regs, "DIR")
           /\ PinBit(regs, "OUT")
           /\ PinBit(regs, "REN")

\* C4: after one toggle() the pin's PxOUT bit is the opposite of what it was;
\* after two consecutive toggle() calls the PxOUT bit and the value getState()
\* returns are what they were before the first.
C4_ToggleInvolution ==
    (handle.kind = "output" /\ lastOp = "toggle")
        => /\ toggleRun = 1 => PinBit(regs, "OUT") # pre.out
           /\ toggleRun = 2 => /\ PinBit(regs, "OUT") = pre.out
                               /\ getState(handle, regs) = pre.state

C4_Witness ==
    /\ handle.kind = "output"
    /\ lastOp = "toggle"
    /\ toggleRun = 2
    /\ pre.out

\* C5: at the return of enableInterrupt() on a PORT_1 or PORT_2 handle the
\* pin's PxIFG bit is 0, pending before or not and whatever the write to PxIES
\* raised, and its PxIE and PxIES bits are 1.
C5_ArmedFlagClear ==
    (lastOp = "enableInterrupt" /\ handle.port \in InterruptPorts)
        => /\ ~PinBit(regs, "IFG")
           /\ PinBit(regs, "IE")
           /\ PinBit(regs, "IES")

C5_Witness ==
    /\ lastOp = "enableInterrupt"
    /\ handle.port \in InterruptPorts
    /\ pre.ifg

\* the nine registers the locator returns for a port
RegisterSet(port) ==
    {getPxDir(port), getPxSel(port), getPxSel2(port), getPxRen(port),
     getPxIn(port), getPxOut(port), getPxIe(port), getPxIes(port),
     getPxIfg(port)}

\* the nine registers a handle refers to
HandleRegisters(h) ==
    {h.PxDir, h.PxSel, h.PxSel2, h.PxRen, h.PxIn, h.PxOut, h.PxIe, h.PxIes,
     h.PxIfg}

\* C6: the nine registers of a handle built for one port share no register
\* with the nine the locator returns for any other port.
C6_DisjointRegisterSets ==
    Constructed
        => \A other \in IOPort \ {handle.port} :
              HandleRegisters(handle) \cap RegisterSet(other) = {}

\* C7: no operation called on a constructed handle changes the pin's bit in
\* PxDIR, PxSEL, PxSEL2 or PxREN.
C7_ConfigurationFixed ==
    [][(Constructed /\ lastOp' \in (WritingOps \cup {"getState"}))
          => \A kind \in {"DIR", "SEL", "SEL2", "REN"} :
                PinBit(regs', kind) = PinBit(regs, kind)]_vars

\* C8: on a PORT_1 or PORT_2 handle, once enableInterrupt() has returned, a
\* high-to-low change of the pin's PxIN bit sets the pin's PxIFG bit; a set
\* PxIFG bit stays set over getState, setState, toggle and init; and at the
\* return of enableInterrupt() the bit is 0.
C8_FlagLatched ==
    [][(Constructed /\ handle.port \in InterruptPorts)
          => /\ (armed /\ handle.mPin \in PinIn(regs, ext, handle.port)
                       /\ handle.mPin \notin PinIn(regs', ext', handle.port))
                   => PinBit(regs', "IFG")
             /\ (armed /\ PinBit(regs, "IFG")
                       /\ lastOp' \in {"getState", "setState", "toggle", "init"})
                   => PinBit(regs', "IFG")
             /\ lastOp' = "enableInterrupt" => ~PinBit(regs', "IFG")]_vars

C8_Witness ==
    /\ Constructed
    /\ handle.port \in InterruptPorts
    /\ armed
    /\ PinBit(regs, "IFG")
    /\ lastOp \in {"setState", "toggle", "init"}

\* C9: the stored mask of every constructed handle has exactly one bit set,
\* and for desiredPin in 0..7 it is bit desiredPin.
C9_SingleBitMask ==
    Constructed
        => /\ Cardinality(handle.mBitMask) = 1
           /\ handle.mPin \in BitIndex => handle.mBitMask = {handle.mPin}

\* C10: init, setState, toggle and enableInterrupt of a handle on (port, pin)
\* change no register of another port and no bit other than bit pin.
C10_OnlyOwnBit ==
    [][(Constructed /\ lastOp' \in WritingOps)
          => \A r \in WritableRegisters :
                regs'[r] # regs[r]
                    => /\ r[1] = handle.port
                       /\ (regs'[r] \ regs[r]) \cup (regs[r] \ regs'[r])
                              = {handle.mPin}]_vars

====
